---- MODULE Spec2Model ----
(***************************************************************************)
(* OnTime: the notification window scheduler (scheduleNotifications), the  *)
(* weekly Jumu'ah scheduler (scheduleJumuahNotifications) and the hook     *)
(* that triggers them (useNotifications), over the pending set of the      *)
(* LocalNotifications scheduling service.                                  *)
(*                                                                         *)
(* Time is in minutes since a Sunday 00:00 (Date.getDay() = 0 on Sunday);  *)
(* the code's milliseconds are minutes * 60000.  An async function is a    *)
(* process whose position (pc) is the service call it is awaiting; the     *)
(* effect of the call and the synchronous code that follows it up to the   *)
(* next await are one step.  Sound and channel resolution only decorate an *)
(* event and are left out: an event is its id and its fire time.           *)
(***************************************************************************)
EXTENDS Integers, Sequences, FiniteSets, TLC

\* ------------------------------------------------------------- bounds
\* Reconciliation passes of each scheduler over a run (the mount pass included).
MaxPasses == 2
\* Clock advances over a run.
MaxTicks == 1
\* Scheduling-service calls of the prayer scheduler that fail over a run.
MaxFailures == 1

\* ---------------------------------------------------- program constants
JUMUAH_BASE_ID == 700
AT_TIME_OFFSET == 1
DAYS_TO_SCHEDULE == 7
WEEKS_TO_SCHEDULE_JUMUAH == 4

PRAYER_BASE_IDS ==
    [fajr |-> 100, sunrise |-> 200, dhuhr |-> 300,
     asr |-> 400, maghrib |-> 500, isha |-> 600]

PrayerName == DOMAIN PRAYER_BASE_IDS

\* The values the settings screen offers for a prayer's reminder.
REMINDER_OPTIONS == {0, 5, 10, 15, 30}

\* ------------------------------------------------------------- time
MinutesPerDay == 24 * 60

DayOf(t) == t \div MinutesPerDay

\* Date.getDay(): 0 = Sunday .. 6 = Saturday.
getDay(t) == DayOf(t) % 7

\* A local wall-clock instant: day, hour, minute (minute may be negative or
\* exceed 59, as Date.setHours normalises it).
At(day, hour, minute) == day * MinutesPerDay + hour * 60 + minute

\* The instant the clock starts from: a Thursday 23:50 (day 4 of the week
\* that starts at minute 0).
StartClock == At(4, 23, 50)

\* One advance of the clock, in minutes: Thursday 23:50 to Friday 04:50.
TickMinutes == 5 * 60

\* ------------------------------------------------- prayer-time source
Coordinates == {"mecca", "elsewhere"}

defaultLocation == "mecca"

\* Time of day of each prayer at the default location.
BaseTimeOfDay ==
    [fajr |-> 5 * 60, sunrise |-> 6 * 60 + 20, dhuhr |-> 12 * 60 + 20,
     asr |-> 15 * 60 + 40, maghrib |-> 18 * 60 + 20, isha |-> 19 * 60 + 40]

\* The instant of one prayer on one calendar day: it lies on that day, moves
\* with the coordinates and drifts from one day to the next.
PrayerInstant(coordinates, day, name) ==
    day * MinutesPerDay + BaseTimeOfDay[name]
        + (IF coordinates = "mecca" THEN 0 ELSE 20)
        + (IF day % 2 = 1 THEN 0 ELSE 1)

\* calculatePrayerTimes(coordinates, date, method, asrRule).prayers: the six
\* fixed prayers in order, followed by an optional (sunnah) entry.
calculatePrayerTimes(coordinates, day) ==
    << [name |-> "fajr",    time |-> PrayerInstant(coordinates, day, "fajr")],
       [name |-> "sunrise", time |-> PrayerInstant(coordinates, day, "sunrise")],
       [name |-> "dhuhr",   time |-> PrayerInstant(coordinates, day, "dhuhr")],
       [name |-> "asr",     time |-> PrayerInstant(coordinates, day, "asr")],
       [name |-> "maghrib", time |-> PrayerInstant(coordinates, day, "maghrib")],
       [name |-> "isha",    time |-> PrayerInstant(coordinates, day, "isha")],
       [name |-> "lastThirdOfNight",
        time |-> PrayerInstant(coordinates, day + 1, "fajr") - 2 * 60] >>

\* ------------------------------------------------------------ settings
defaultPrayerNotification ==
    [enabled |-> TRUE, reminderMinutes |-> 15, atPrayerTime |-> TRUE]

\* A Jumu'ah time slot: the khutbah "HH:MM" as its hour and minute fields.
defaultJumuahSettings ==
    [enabled |-> FALSE, times |-> << <<13, 0>> >>, reminderMinutes |-> 30]

defaultSettings ==
    [notifications |->
        [enabled |-> TRUE,
         prayers |->
            [p \in PrayerName |->
                IF p = "sunrise"
                THEN [defaultPrayerNotification EXCEPT !.enabled = FALSE]
                ELSE defaultPrayerNotification]],
     jumuah |-> defaultJumuahSettings]

\* ------------------------------------------------ notification service
\* isCorePrayer: the name is one of the six that own an ID band.
isCorePrayer(name) == name \in DOMAIN PRAYER_BASE_IDS

\* An id scheme whose window ids step by 100 a day instead of 10.
getNotificationIdWide(prayer, dayOffset, isAtTime) ==
    PRAYER_BASE_IDS[prayer] + (dayOffset * 100)
        + (IF isAtTime THEN AT_TIME_OFFSET ELSE 0)

\* An id scheme that spaces the days of a prayer by one.
getNotificationIdFlat(prayer, dayOffset, isAtTime) ==
    PRAYER_BASE_IDS[prayer] + dayOffset
        + (IF isAtTime THEN AT_TIME_OFFSET ELSE 0)

getNotificationId(prayer, dayOffset, isAtTime) ==
    LET baseId == PRAYER_BASE_IDS[prayer]
        timeOffset == IF isAtTime THEN AT_TIME_OFFSET ELSE 0
    IN  baseId + (dayOffset * 10) + timeOffset

\* A reminder test that lets a reminder due exactly now through.
ReminderDueInclusive(reminderMinutes, reminderTime, now) ==
    reminderMinutes > 0 /\ reminderTime >= now

\* The reminder is pushed: reminderMinutes > 0 and reminderTime > now.
ReminderDue(reminderMinutes, reminderTime, now) ==
    reminderMinutes > 0 /\ reminderTime > now

\* The at-time event is pushed: atPrayerTime && prayerTime > now.
AtTimeDue(atPrayerTime, prayerTime, now) ==
    atPrayerTime /\ prayerTime > now

\* The body of `for (const prayer of prayers)`: what one prayer of one day
\* pushes, in order.
PrayerBody(prayer, dayOffset, s, now) ==
    IF ~isCorePrayer(prayer.name) THEN << >>
    ELSE
        LET prayerSettings == s.notifications.prayers[prayer.name] IN
        IF ~prayerSettings.enabled THEN << >>
        ELSE
            LET prayerTime == prayer.time
                reminderTime == prayerTime - prayerSettings.reminderMinutes
            IN  (IF ReminderDue(prayerSettings.reminderMinutes, reminderTime, now)
                 THEN << [id |-> getNotificationId(prayer.name, dayOffset, FALSE),
                          at |-> reminderTime] >>
                 ELSE << >>)
                \o
                (IF AtTimeDue(prayerSettings.atPrayerTime, prayerTime, now)
                 THEN << [id |-> getNotificationId(prayer.name, dayOffset, TRUE),
                          at |-> prayerTime] >>
                 ELSE << >>)

\* for (const prayer of prayers): the pushes of prayers k.. of one day.
RECURSIVE PrayerLoop(_, _, _, _, _)
PrayerLoop(prayers, k, dayOffset, s, now) ==
    IF k > Len(prayers) THEN << >>
    ELSE PrayerBody(prayers[k], dayOffset, s, now)
            \o PrayerLoop(prayers, k + 1, dayOffset, s, now)

\* for (dayOffset = 0; dayOffset < DAYS_TO_SCHEDULE; dayOffset++): the prayer
\* times are recalculated for every target date.
RECURSIVE DayLoop(_, _, _, _)
DayLoop(dayOffset, coordinates, s, now) ==
    IF ~(dayOffset < DAYS_TO_SCHEDULE) THEN << >>
    ELSE
        LET targetDate == DayOf(now) + dayOffset
            prayers == calculatePrayerTimes(coordinates, targetDate)
        IN  PrayerLoop(prayers, 1, dayOffset, s, now)
                \o DayLoop(dayOffset + 1, coordinates, s, now)

\* The notifications array scheduleNotifications builds after its cancel step.
PrayerNotifications(coordinates, s, now) == DayLoop(0, coordinates, s, now)

\* A count of days that is 0 on a Friday.
daysUntilFridaySameDay(now) == (5 - getDay(now) + 7) % 7

\* (5 - now.getDay() + 7) % 7 || 7
daysUntilFriday(now) ==
    LET d == (5 - getDay(now) + 7) % 7 IN IF d = 0 THEN 7 ELSE d

\* A slot test that lets a reminder due exactly now through.
JumuahDueInclusive(reminderTime, now) == reminderTime >= now

\* The slot's reminder is pushed: reminderTime > now.
JumuahDue(reminderTime, now) == reminderTime > now

\* The body of jumuahSettings.times.forEach((time, timeIndex) => ...), with
\* timeIndex 0-based: what one slot of one week pushes.
TimeBody(timeIndex, weekOffset, j, now) ==
    LET time == j.times[timeIndex + 1]
        khutbahHour == time[1]
        khutbahMinute == time[2]
        nextFriday == DayOf(now) + daysUntilFriday(now) + (weekOffset * 7)
        reminderTime == At(nextFriday, khutbahHour, khutbahMinute - j.reminderMinutes)
    IN  IF JumuahDue(reminderTime, now)
        THEN << [id |-> JUMUAH_BASE_ID + (weekOffset * 10) + timeIndex,
                 at |-> reminderTime] >>
        ELSE << >>

RECURSIVE TimeLoop(_, _, _, _)
TimeLoop(timeIndex, weekOffset, j, now) ==
    IF ~(timeIndex < Len(j.times)) THEN << >>
    ELSE TimeBody(timeIndex, weekOffset, j, now)
            \o TimeLoop(timeIndex + 1, weekOffset, j, now)

\* for (weekOffset = 0; weekOffset < WEEKS_TO_SCHEDULE_JUMUAH; weekOffset++)
RECURSIVE WeekLoop(_, _, _)
WeekLoop(weekOffset, j, now) ==
    IF ~(weekOffset < WEEKS_TO_SCHEDULE_JUMUAH) THEN << >>
    ELSE TimeLoop(0, weekOffset, j, now) \o WeekLoop(weekOffset + 1, j, now)

\* The notifications array scheduleJumuahNotifications builds.
JumuahNotifications(j, now) == WeekLoop(0, j, now)

\* ------------------------------------------------- scheduling service
\* LocalNotifications.getPending(): the ids of the pending events.
PendingIds(pend) == {n.id : n \in pend}

\* A cancel call that removes nothing.
CancelNothing(pend, ids) == pend

\* LocalNotifications.cancel({notifications: ids}).
Cancel(pend, ids) == {n \in pend : n.id \notin ids}

\* LocalNotifications.schedule({notifications}): each event in order; an event
\* replaces the pending event of the same id, so of the events pushed with one
\* id the last one stays.
Schedule(pend, notifications) ==
    LET ids == {notifications[k].id : k \in DOMAIN notifications}
        kept == {n \in pend : n.id \notin ids}
    IN  IF Cardinality(ids) = Len(notifications)
        THEN kept \cup {notifications[k] : k \in DOMAIN notifications}
        ELSE kept \cup
             {notifications[k] : k \in
                {k \in DOMAIN notifications :
                    \A m \in DOMAIN notifications :
                        notifications[m].id = notifications[k].id => m <= k}}

\* A cancel-all that skips a pending set of a single event.
CancelAllTargetsSeveral(ids) == IF Cardinality(ids) > 1 THEN ids ELSE {}

\* cancelAllNotifications: every pending id, when there is any.
CancelAllTargets(ids) == IF Cardinality(ids) > 0 THEN ids ELSE {}

\* cancelJumuahNotifications: the pending ids in the 700-799 range.
JumuahTargets(ids) == {id \in ids : id >= JUMUAH_BASE_ID /\ id < 800}

\* ---------------------------------------------------------------- state
VARIABLES
    clock,      \* the wall clock (new Date())
    ticks,      \* clock advances so far
    failures,   \* calls of the prayer scheduler that have failed so far
    settings,   \* SettingsProvider's settings state
    isLoading,  \* SettingsProvider's isLoading state
    location,   \* LocationProvider's location.coordinates
    pending,    \* the scheduling service's pending events: records [id, at]
    passes,     \* the scheduleNotifications calls made so far, in call order
    jpasses     \* the scheduleJumuahNotifications calls made so far

\* TravelProvider's state, and the ids handed out by the two id schemes.
VARIABLES
    travel,           \* settings.travel
    travelState,      \* TravelProvider's memoized travelState
    dismissed,        \* TravelProvider's dismissed state (session only)
    prevDistanceRef,  \* TravelProvider's prevDistanceRef.current (session only)
    effectPending,    \* the auto-reset effect has yet to run for the last change
    lastCall,         \* the last TravelProvider step taken
    allocated,        \* the last two prayer ids handed out, with their arguments
    weekly            \* the events a weekly pass builds for a number of slots

travelVars == <<travel, travelState, dismissed, prevDistanceRef, effectPending, lastCall>>

idVars == <<allocated, weekly>>

\* The scheduler's own variables.
schedulerVars == <<failures, settings, isLoading, pending, passes, jpasses>>

vars == <<clock, ticks, failures, settings, isLoading, location, pending, passes, jpasses,
          travel, travelState, dismissed, prevDistanceRef, effectPending, lastCall, allocated, weekly>>

\* null, for a distance, a date or a home base that is not set.
Null == -1

\* Distances are in tenths of a kilometre: 887 is 88.7 km.
defaultTravelSettings ==
    [enabled |-> FALSE,
     homeBase |-> "none",
     override |-> "auto",
     distanceThresholdKm |-> 887,
     jamaDhuhrAsr |-> FALSE,
     jamaMaghribIsha |-> FALSE,
     maxTravelDays |-> 0,
     travelStartDate |-> Null,
     autoConfirmed |-> FALSE]

defaultTravelState ==
    [isTraveling |-> FALSE,
     travelPending |-> FALSE,
     distanceFromHomeKm |-> Null,
     isAutoDetected |-> FALSE,
     qasr |-> [dhuhr |-> FALSE, asr |-> FALSE, isha |-> FALSE],
     jamaDhuhrAsr |-> FALSE,
     jamaMaghribIsha |-> FALSE]

\* TravelProvider before anything has happened to it.
TravelIdle ==
    /\ travel = defaultTravelSettings
    /\ travelState = defaultTravelState
    /\ dismissed = FALSE
    /\ prevDistanceRef = Null
    /\ effectPending = FALSE
    /\ lastCall = "none"

\* No id handed out yet.
NoAllocation == [prayer |-> "none", dayOffset |-> 0, isAtTime |-> FALSE, id |-> 0]

IdsIdle ==
    /\ allocated = <<NoAllocation, NoAllocation>>
    /\ weekly = << >>

\* The schedulers before any pass, with nothing pending.
SchedulerIdle ==
    /\ failures = 0
    /\ settings = defaultSettings
    /\ isLoading = FALSE
    /\ pending = {}
    /\ passes = << >>
    /\ jpasses = << >>

\* What is pending when the app starts: events left by an earlier run (a
\* prayer event of an id no longer allocated, a Jumu'ah event).
InitialPending ==
    { [id |-> 155, at |-> At(5, 9, 0)], [id |-> 700, at |-> At(5, 12, 30)] }

\* What the settings store may hold when the app starts.
StoredSettings ==
    { [defaultSettings EXCEPT
          !.jumuah = [enabled |-> TRUE, times |-> << <<0, 20>>, <<13, 0>> >>,
                      reminderMinutes |-> 30]],
      [defaultSettings EXCEPT
          !.notifications.prayers.fajr.reminderMinutes = 5,
          !.notifications.prayers.dhuhr.atPrayerTime = FALSE,
          !.notifications.prayers.asr.reminderMinutes = 0,
          !.notifications.prayers.isha.enabled = FALSE,
          !.jumuah = [enabled |-> TRUE, times |-> << <<13, 0>>, <<14, 0>> >>,
                      reminderMinutes |-> 60]] }

\* A pass of either scheduler.  pc: the call the pass awaits, or "done".
\* hasPermission: what requestNotificationPermission answered this pass.
\* cancelled, scheduled: the pass has issued a cancel / a schedule call.
\* failed: a scheduling-service call of the pass has thrown; callAfterFailure:
\* the pass issued a scheduling-service call after one had thrown.
\* interferedBy: the schedulers whose other passes changed the pending set
\* between this pass's first look at it (its getPending) and its return.
\* result: the pending set at its return.
NewRecord(pc, coordinates, s, hasPermission) ==
    [pc |-> pc,
     coordinates |-> coordinates,
     settings |-> s,
     hasPermission |-> hasPermission,
     toCancel |-> {},
     now |-> -1,
     notifications |-> << >>,
     cancelled |-> FALSE,
     scheduled |-> FALSE,
     failed |-> FALSE,
     callAfterFailure |-> FALSE,
     interferedBy |-> {},
     result |-> {}]

InFlight(p) == p.pc # "done"

\* The pass returns: its result is the pending set it leaves.
Return(p, pend) ==
    [p EXCEPT !.pc = "done", !.result = pend, !.toCancel = {}, !.notifications = << >>]

\* The pass issues a scheduling-service call (getPending, cancel, schedule).
Issue(p, op) ==
    [p EXCEPT !.pc = op,
              !.cancelled = @ \/ op = "cancel",
              !.scheduled = @ \/ op = "schedule",
              !.callAfterFailure = @ \/ p.failed]

\* The awaited call resolves (ok) or throws.
Resolved(p, ok) == [p EXCEPT !.failed = @ \/ ~ok]

\* A call of scheduleNotifications(coordinates, settings) up to the first
\* scheduling-service call: with notifications off, cancelAllNotifications at
\* once; otherwise requestNotificationPermission, which touches no state of
\* the model, has answered `granted`, and a pass without permission returns.
NewPass(coordinates, s, granted) ==
    IF ~s.notifications.enabled
    THEN Issue(NewRecord("start", coordinates, s, "unknown"), "getPending")
    ELSE IF ~granted
    THEN Return(NewRecord("start", coordinates, s, "denied"), pending)
    ELSE Issue(NewRecord("start", coordinates, s, "granted"), "getPending")

\* A call of scheduleJumuahNotifications(jumuahSettings) up to its first
\* await: cancelJumuahNotifications' getPending.
NewJumuahPass(j) ==
    Issue(NewRecord("start", "none", j, "unknown"), "getPending")

Init ==
    /\ clock = StartClock
    /\ ticks = 0
    /\ failures = 0
    /\ settings = defaultSettings
    /\ isLoading = TRUE
    /\ location = defaultLocation
    /\ pending = InitialPending
    \* The effects of useNotifications run on mount.
    /\ \E granted \in BOOLEAN :
        passes = << NewPass(defaultLocation, defaultSettings, granted) >>
    /\ jpasses = << NewJumuahPass(defaultSettings.jumuah) >>
    /\ TravelIdle
    /\ IdsIdle

\* Every other pass that is past its getPending and has not returned learns
\* that `who` changed the pending set.
Mark(ps, who, actor) ==
    [k \in DOMAIN ps |->
        IF k # actor /\ InFlight(ps[k]) /\ ps[k].pc # "getPending"
        THEN [ps[k] EXCEPT !.interferedBy = @ \cup {who}]
        ELSE ps[k]]

\* Whether a call of the prayer scheduler may fail in this step.
Outcomes == IF failures < MaxFailures THEN {TRUE, FALSE} ELSE {TRUE}

\* ------------------------------------------------- scheduleNotifications
\* After `await cancelAllNotifications()`: return when notifications are off;
\* otherwise read the clock, build the notifications and call schedule when
\* there is any.
AfterCancelAll(p, pend) ==
    IF ~p.settings.notifications.enabled THEN Return(p, pend)
    ELSE
        LET now == clock
            notifications == PrayerNotifications(p.coordinates, p.settings, now)
            q == [p EXCEPT !.now = now, !.notifications = notifications]
        IN  IF Len(notifications) > 0 THEN Issue(q, "schedule")
            ELSE Return(q, pend)

\* cancelAllNotifications: getPending resolves or throws (caught and logged).
GetPending(i) ==
    /\ i \in DOMAIN passes
    /\ passes[i].pc = "getPending"
    /\ \E ok \in Outcomes :
        /\ failures' = IF ok THEN failures ELSE failures + 1
        /\ LET p == Resolved(passes[i], ok)
               ids == IF ok THEN CancelAllTargets(PendingIds(pending)) ELSE {}
           IN  passes' = [passes EXCEPT ![i] =
                   IF ids # {} THEN Issue([p EXCEPT !.toCancel = ids], "cancel")
                   ELSE AfterCancelAll(p, pending)]
    /\ UNCHANGED <<clock, ticks, settings, isLoading, location, pending, jpasses>>
    /\ UNCHANGED <<travelVars, idVars>>

\* cancelAllNotifications: cancel resolves or throws (caught and logged).
CancelAll(i) ==
    /\ i \in DOMAIN passes
    /\ passes[i].pc = "cancel"
    /\ \E ok \in Outcomes :
        /\ failures' = IF ok THEN failures ELSE failures + 1
        /\ pending' = IF ok THEN Cancel(pending, passes[i].toCancel) ELSE pending
        /\ LET p == Resolved(passes[i], ok)
               changed == pending' # pending
           IN  /\ passes' = [(IF changed THEN Mark(passes, "prayer", i) ELSE passes)
                                EXCEPT ![i] = AfterCancelAll(p, pending')]
               /\ jpasses' = IF changed THEN Mark(jpasses, "prayer", 0) ELSE jpasses
    /\ UNCHANGED <<clock, ticks, settings, isLoading, location>>
    /\ UNCHANGED <<travelVars, idVars>>

\* LocalNotifications.schedule resolves or throws (caught and logged).
ScheduleAll(i) ==
    /\ i \in DOMAIN passes
    /\ passes[i].pc = "schedule"
    /\ \E ok \in Outcomes :
        /\ failures' = IF ok THEN failures ELSE failures + 1
        /\ pending' = IF ok THEN Schedule(pending, passes[i].notifications) ELSE pending
        /\ LET p == Resolved(passes[i], ok)
               changed == pending' # pending
           IN  /\ passes' = [(IF changed THEN Mark(passes, "prayer", i) ELSE passes)
                                EXCEPT ![i] = Return(p, pending')]
               /\ jpasses' = IF changed THEN Mark(jpasses, "prayer", 0) ELSE jpasses
    /\ UNCHANGED <<clock, ticks, settings, isLoading, location>>
    /\ UNCHANGED <<travelVars, idVars>>

\* ------------------------------------------- scheduleJumuahNotifications
\* After `await cancelJumuahNotifications()`: return when Jumu'ah is off or
\* has no time slot; otherwise ask for the permission.
AfterCancelJumuah(p, pend) ==
    IF ~p.settings.enabled \/ Len(p.settings.times) = 0 THEN Return(p, pend)
    ELSE [p EXCEPT !.pc = "perm"]

\* The calls of the weekly scheduler are followed where they resolve; a call
\* that throws is caught and logged by the same catch blocks as above.
\* cancelJumuahNotifications: getPending resolves.
JumuahGetPending(j) ==
    /\ j \in DOMAIN jpasses
    /\ jpasses[j].pc = "getPending"
    /\ LET p == jpasses[j]
           ids == JumuahTargets(PendingIds(pending))
       IN  jpasses' = [jpasses EXCEPT ![j] =
               IF Cardinality(ids) > 0 THEN Issue([p EXCEPT !.toCancel = ids], "cancel")
               ELSE AfterCancelJumuah(p, pending)]
    /\ UNCHANGED <<clock, ticks, failures, settings, isLoading, location, pending, passes>>
    /\ UNCHANGED <<travelVars, idVars>>

\* cancelJumuahNotifications: cancel resolves.
JumuahCancel(j) ==
    /\ j \in DOMAIN jpasses
    /\ jpasses[j].pc = "cancel"
    /\ pending' = Cancel(pending, jpasses[j].toCancel)
    /\ LET changed == pending' # pending
       IN  /\ jpasses' = [(IF changed THEN Mark(jpasses, "weekly", j) ELSE jpasses)
                            EXCEPT ![j] = AfterCancelJumuah(jpasses[j], pending')]
           /\ passes' = IF changed THEN Mark(passes, "weekly", 0) ELSE passes
    /\ UNCHANGED <<clock, ticks, failures, settings, isLoading, location>>
    /\ UNCHANGED <<travelVars, idVars>>

\* requestNotificationPermission resolves; when granted, read the clock, build
\* the notifications and call schedule when there is any.
JumuahPermission(j) ==
    /\ j \in DOMAIN jpasses
    /\ jpasses[j].pc = "perm"
    /\ \E granted \in BOOLEAN :
        jpasses' = [jpasses EXCEPT ![j] =
            IF ~granted
            THEN Return([@ EXCEPT !.hasPermission = "denied"], pending)
            ELSE
                LET now == clock
                    notifications == JumuahNotifications(@.settings, now)
                    q == [@ EXCEPT !.hasPermission = "granted", !.now = now,
                                   !.notifications = notifications]
                IN  IF Len(notifications) > 0 THEN Issue(q, "schedule")
                    ELSE Return(q, pending)]
    /\ UNCHANGED <<clock, ticks, failures, settings, isLoading, location, pending, passes>>
    /\ UNCHANGED <<travelVars, idVars>>

\* LocalNotifications.schedule resolves.
JumuahSchedule(j) ==
    /\ j \in DOMAIN jpasses
    /\ jpasses[j].pc = "schedule"
    /\ pending' = Schedule(pending, jpasses[j].notifications)
    /\ LET changed == pending' # pending
       IN  /\ jpasses' = [(IF changed THEN Mark(jpasses, "weekly", j) ELSE jpasses)
                            EXCEPT ![j] = Return(jpasses[j], pending')]
           /\ passes' = IF changed THEN Mark(passes, "weekly", 0) ELSE passes
    /\ UNCHANGED <<clock, ticks, failures, settings, isLoading, location>>
    /\ UNCHANGED <<travelVars, idVars>>

\* ------------------------------------------------------ useNotifications
\* useEffect(() => { reschedule(); }, [reschedule]): reschedule is rebuilt,
\* and so called, whenever location.coordinates or settings changes.
Reschedule(coordinates, s) ==
    /\ Len(passes) < MaxPasses
    /\ \E granted \in BOOLEAN :
        passes' = Append(passes, NewPass(coordinates, s, granted))

\* useEffect(() => { rescheduleJumuah(); }, [rescheduleJumuah]): called
\* whenever settings.jumuah changes.
RescheduleJumuah(j) ==
    /\ Len(jpasses) < MaxPasses
    /\ jpasses' = Append(jpasses, NewJumuahPass(j))

\* loadSettings: nothing stored, or the stored settings replace the state
\* (with a new jumuah object, so both effects run).
LoadSettings ==
    /\ isLoading
    /\ isLoading' = FALSE
    /\ \/ UNCHANGED <<settings, passes, jpasses>>
       \/ \E stored \in StoredSettings :
            /\ settings' = stored
            /\ Reschedule(location, stored)
            /\ RescheduleJumuah(stored.jumuah)
    /\ UNCHANGED <<clock, ticks, failures, location, pending>>
    /\ UNCHANGED <<travelVars, idVars>>

\* The prayers whose settings the user changes, and the reminder values picked.
UpdatedPrayers == {"fajr", "isha"}
PickedReminders == {10}

\* The changes of one prayer's settings the settings screen makes.
PrayerUpdates(ps) ==
    {[ps EXCEPT !.enabled = ~@]}
        \cup {[ps EXCEPT !.reminderMinutes = m] :
                m \in (REMINDER_OPTIONS \cap PickedReminders) \ {ps.reminderMinutes}}

updatePrayerNotification(prayer) ==
    /\ \E updated \in PrayerUpdates(settings.notifications.prayers[prayer]) :
        /\ settings' = [settings EXCEPT !.notifications.prayers[prayer] = updated]
        /\ Reschedule(location, settings')
    /\ UNCHANGED <<clock, ticks, failures, isLoading, location, pending, jpasses>>
    /\ UNCHANGED <<travelVars, idVars>>

updateNotifications ==
    /\ \E enabled \in BOOLEAN \ {settings.notifications.enabled} :
        /\ settings' = [settings EXCEPT !.notifications.enabled = enabled]
        /\ Reschedule(location, settings')
    /\ UNCHANGED <<clock, ticks, failures, isLoading, location, pending, jpasses>>
    /\ UNCHANGED <<travelVars, idVars>>

\* The changes of the Jumu'ah settings the settings screen makes.
JumuahUpdates(j) ==
    {[j EXCEPT !.enabled = ~@], [j EXCEPT !.times = Append(@, <<14, 0>>)]}

updateJumuah ==
    /\ \E updated \in JumuahUpdates(settings.jumuah) :
        /\ settings' = [settings EXCEPT !.jumuah = updated]
        /\ Reschedule(location, settings')
        /\ RescheduleJumuah(updated)
    /\ UNCHANGED <<clock, ticks, failures, isLoading, location, pending>>
    /\ UNCHANGED <<travelVars, idVars>>

\* setLocation: a saved, GPS or manual location replaces the state.
setLocation ==
    /\ \E coordinates \in Coordinates \ {location} :
        /\ location' = coordinates
        /\ Reschedule(coordinates, settings)
    /\ UNCHANGED <<clock, ticks, failures, settings, isLoading, pending, jpasses>>
    /\ UNCHANGED <<travelVars, idVars>>

\* Time passes.  An advance is hours long and a pass lasts milliseconds: the
\* clock advances while no pass is in flight.
Tick ==
    /\ ticks < MaxTicks
    /\ \A i \in DOMAIN passes : ~InFlight(passes[i])
    /\ \A j \in DOMAIN jpasses : ~InFlight(jpasses[j])
    /\ ticks' = ticks + 1
    /\ clock' = clock + TickMinutes
    /\ UNCHANGED <<failures, settings, isLoading, location, pending, passes, jpasses>>
    /\ UNCHANGED <<travelVars, idVars>>

Next ==
    \/ \E i \in 1..MaxPasses : GetPending(i)
    \/ \E i \in 1..MaxPasses : CancelAll(i)
    \/ \E i \in 1..MaxPasses : ScheduleAll(i)
    \/ \E j \in 1..MaxPasses : JumuahGetPending(j)
    \/ \E j \in 1..MaxPasses : JumuahCancel(j)
    \/ \E j \in 1..MaxPasses : JumuahPermission(j)
    \/ \E j \in 1..MaxPasses : JumuahSchedule(j)
    \/ LoadSettings
    \/ \E prayer \in UpdatedPrayers : updatePrayerNotification(prayer)
    \/ updateNotifications
    \/ updateJumuah
    \/ setLocation
    \/ Tick

Spec == Init /\ [][Next]_vars

\* ------------------------------------------------------------ properties
\* The ids of the prayer bands and of the weekly band.
PrayerIds == 100..699
WeeklyIds == 700..799

PrayerBand(pend) == {n \in pend : n.id \in PrayerIds}

\* The 100-wide id band of one prayer.
BandOf(prayer) == PRAYER_BASE_IDS[prayer]..(PRAYER_BASE_IDS[prayer] + 99)

\* The days of the window, as offsets from the day of the reconciliation.
WindowDays == 0..(DAYS_TO_SCHEDULE - 1)

\* The events the settings, the coordinates and the timestamp call for: a
\* reminder per enabled prayer and day with reminderMinutes > 0 and a future
\* fire time, an at-time event per enabled prayer and day with atPrayerTime
\* set and a future instant.
DerivedEvents(coordinates, s, now) ==
    LET ps == s.notifications.prayers
        Instant(x) == PrayerInstant(coordinates, DayOf(now) + x[2], x[1])
        Slots == {x \in PrayerName \X WindowDays : ps[x[1]].enabled}
    IN  IF ~s.notifications.enabled THEN {}
        ELSE {[id |-> PRAYER_BASE_IDS[x[1]] + 10 * x[2],
               at |-> Instant(x) - ps[x[1]].reminderMinutes] :
                 x \in {y \in Slots : /\ ps[y[1]].reminderMinutes > 0
                                      /\ Instant(y) - ps[y[1]].reminderMinutes > now}}
             \cup
             {[id |-> PRAYER_BASE_IDS[x[1]] + 10 * x[2] + 1, at |-> Instant(x)] :
                 x \in {y \in Slots : ps[y[1]].atPrayerTime /\ Instant(y) > now}}

\* A prayer pass that has returned after running with notifications enabled
\* and the permission granted, none of its calls having failed.
Reconciled(p) ==
    /\ p.pc = "done"
    /\ p.settings.notifications.enabled
    /\ p.hasPermission = "granted"
    /\ ~p.failed

\* C1: a prayer pass cancels only ids of the prayer bands 100..699, so that a
\* pending weekly event (700..799) survives any prayer pass: no cancel call of
\* a prayer pass names an id of the weekly band.
C1_PrayerPassSparesWeekly ==
    \A i \in DOMAIN passes : passes[i].toCancel \cap WeeklyIds = {}

\* C2: from any pending set, when a prayer pass that ran with notifications
\* enabled, permission granted and no failed call returns (no other prayer
\* pass having changed the pending set between its steps), the pending events
\* with ids in 100..699 are exactly the events derived from its settings,
\* coordinates and timestamp.
C2_PassLeavesDerivedEvents ==
    \A i \in DOMAIN passes :
        LET p == passes[i] IN
        (Reconciled(p) /\ "prayer" \notin p.interferedBy)
            => PrayerBand(p.result) = DerivedEvents(p.coordinates, p.settings, p.now)

\* A state where C2's case has happened: the only prayer pass so far started
\* from the events an earlier run left behind, cancelled them and returned
\* with a non-empty result.
C2_Witness ==
    /\ Len(passes) = 1
    /\ Reconciled(passes[1])
    /\ passes[1].cancelled
    /\ "prayer" \notin passes[1].interferedBy
    /\ PrayerBand(passes[1].result) # {}
    /\ \A n \in passes[1].result : n.id # 155

\* Two prayer passes were given the same coordinates, notification settings
\* and timestamp.
SameInputs(p, q) ==
    /\ p.coordinates = q.coordinates
    /\ p.settings.notifications = q.settings.notifications
    /\ p.now = q.now

\* A prayer pass that returned after running alone: the permission was not
\* refused, no call failed and nothing else changed the pending set between
\* its steps.
RanAlone(p) ==
    /\ p.pc = "done"
    /\ p.hasPermission # "denied"
    /\ ~p.failed
    /\ p.interferedBy = {}

\* C3: two prayer passes that run with identical coordinates, settings and
\* timestamp, each on its own, leave the same pending set (same ids, same fire
\* times) after the second as after the first.
C3_SamePendingTwice ==
    \A a \in DOMAIN passes : \A b \in DOMAIN passes :
        (a < b /\ RanAlone(passes[a]) /\ RanAlone(passes[b])
               /\ SameInputs(passes[a], passes[b]))
            => passes[b].result = passes[a].result

\* A state where C3's case has happened: two passes with identical inputs have
\* both scheduled and returned.
C3_Witness ==
    /\ Len(passes) = 2
    /\ RanAlone(passes[1]) /\ RanAlone(passes[2])
    /\ SameInputs(passes[1], passes[2])
    /\ passes[1].scheduled /\ passes[2].scheduled
    /\ passes[2].result # {}

\* The pass has got an answer from the scheduling service or has returned
\* after touching it.
Underway(p) ==
    \/ p.pc \in {"cancel", "schedule"}
    \/ p.pc = "done" /\ p.hasPermission # "denied"

\* C4: no two prayer passes overlap: while an earlier pass is suspended at one
\* of its awaits, a later pass has not gone past its first scheduling-service
\* call (it starts its cancel step only after the earlier pass has finished).
C4_NoOverlap ==
    \A a \in DOMAIN passes : \A b \in DOMAIN passes :
        (a < b /\ InFlight(passes[a])) => ~Underway(passes[b])

\* C5: once every triggered prayer pass has returned without a failed call,
\* the pending prayer events are exactly those derived from the inputs of the
\* latest pass; nothing computed from an earlier input generation remains.
C5_LatestInputsWin ==
    LET last == passes[Len(passes)] IN
    (/\ \A i \in DOMAIN passes : passes[i].pc = "done" /\ ~passes[i].failed
     /\ Reconciled(last))
        => PrayerBand(pending) = DerivedEvents(last.coordinates, last.settings, last.now)

\* C6: with the permission refused, a pass of either scheduler issues neither
\* a cancel nor a schedule call.
C6_NoPermissionNoCalls ==
    /\ \A i \in DOMAIN passes :
        passes[i].hasPermission = "denied"
            => ~passes[i].cancelled /\ ~passes[i].scheduled
    /\ \A j \in DOMAIN jpasses :
        jpasses[j].hasPermission = "denied"
            => ~jpasses[j].cancelled /\ ~jpasses[j].scheduled

\* C7: a failed scheduling-service call aborts the prayer pass: the pass
\* issues no scheduling-service call after one of its calls has failed.
C7_FailureAborts ==
    \A i \in DOMAIN passes : ~passes[i].callAfterFailure

\* The events a pass is about to hand to LocalNotifications.schedule.
Emitted(p) == {p.notifications[k] : k \in DOMAIN p.notifications}

\* What C8 asks of the events one prayer pass emits.
FutureOnly(p) ==
    LET N == Emitted(p)
        ps == p.settings.notifications.prayers
        Instant(prayer, d) == PrayerInstant(p.coordinates, DayOf(p.now) + d, prayer)
        ids == {n.id : n \in N}
        Has(id) == id \in ids
    IN  /\ \A n \in N : n.at > p.now
        /\ \A prayer \in PrayerName : \A d \in WindowDays :
            LET base == PRAYER_BASE_IDS[prayer] + 10 * d
                r == ps[prayer].reminderMinutes
                reminder == [id |-> base, at |-> Instant(prayer, d) - r]
                atTime == [id |-> base + 1, at |-> Instant(prayer, d)]
            IN  IF ps[prayer].enabled
                THEN /\ Has(base) <=> (r > 0 /\ Instant(prayer, d) - r > p.now)
                     /\ Has(base) => reminder \in N
                     /\ Has(base + 1) <=>
                            (ps[prayer].atPrayerTime /\ Instant(prayer, d) > p.now)
                     /\ Has(base + 1) => atTime \in N
                ELSE ~Has(base) /\ ~Has(base + 1)
        /\ \A prayer \in PrayerName :
            (ps[prayer].enabled /\ Instant(prayer, 0) <= p.now) =>
                /\ ~Has(PRAYER_BASE_IDS[prayer])
                /\ ~Has(PRAYER_BASE_IDS[prayer] + 1)
                /\ \A d \in WindowDays \ {0} :
                    /\ ps[prayer].reminderMinutes > 0
                        => Has(PRAYER_BASE_IDS[prayer] + 10 * d)
                    /\ ps[prayer].atPrayerTime
                        => Has(PRAYER_BASE_IDS[prayer] + 10 * d + 1)

\* C8: every event a prayer pass emits fires strictly after the pass's
\* timestamp: a reminder is emitted iff reminderMinutes > 0 and
\* prayerInstant - reminderMinutes > now, an at-time event iff atPrayerTime
\* and prayerInstant > now; a prayer already past on day 0 gets no event for
\* day 0 and gets its events for the later days of the window.
C8_EmittedEventsAreFuture ==
    \A i \in DOMAIN passes :
        passes[i].pc = "schedule" => FutureOnly(passes[i])

\* A state where C8's case has happened: a pass is handing over its events at
\* a time when fajr of day 0 is over, with fajr's events of day 1 among them
\* and none for day 0.
C8_Witness ==
    \E i \in DOMAIN passes :
        LET p == passes[i] IN
        /\ p.pc = "schedule"
        /\ p.settings.notifications.prayers["fajr"].enabled
        /\ PrayerInstant(p.coordinates, DayOf(p.now), "fajr") <= p.now
        /\ \E n \in Emitted(p) : n.id = PRAYER_BASE_IDS["fajr"] + 10
        /\ \A n \in Emitted(p) : n.id # PRAYER_BASE_IDS["fajr"] + 1

\* The second pass ran with the first pass's inputs but for one prayer, which
\* was enabled for the first and is disabled for the second.
DisablesOne(p, q, prayer) ==
    /\ p.coordinates = q.coordinates
    /\ p.now = q.now
    /\ p.settings.notifications.prayers[prayer].enabled
    /\ q.settings.notifications =
        [p.settings.notifications EXCEPT !.prayers[prayer].enabled = FALSE]

WindowWeeks == 0..(WEEKS_TO_SCHEDULE_JUMUAH - 1)
TwoSlots == 0..1

\* The first Friday after the day of `now`.
FridayAfter(now) ==
    CHOOSE day \in (DayOf(now) + 1)..(DayOf(now) + 7) : day % 7 = 5

\* The fire time of a (week, slot) pair: the slot's time on the week's Friday
\* less the reminder.
FireTime(j, now, week, slot) ==
    At(FridayAfter(now) + 7 * week, j.times[slot + 1][1], j.times[slot + 1][2])
        - j.reminderMinutes

\* What C10 asks of the events one two-slot weekly pass emits.
EightLessThePast(p) ==
    LET N == Emitted(p)
        Due == {x \in WindowWeeks \X TwoSlots :
                    FireTime(p.settings, p.now, x[1], x[2]) > p.now}
    IN  /\ \A x \in WindowWeeks \X TwoSlots :
            LET id == JUMUAH_BASE_ID + 10 * x[1] + x[2] IN
            /\ (\E n \in N : n.id = id) <=> x \in Due
            /\ x \in Due =>
                [id |-> id, at |-> FireTime(p.settings, p.now, x[1], x[2])] \in N
        /\ Len(p.notifications) = Cardinality(Due)
        /\ Due = WindowWeeks \X TwoSlots => Len(p.notifications) = 8
        /\ \A x \in (WindowWeeks \X TwoSlots) \ Due : x[1] = 0

\* C10: a weekly pass over four weeks and two slots emits exactly 8 events
\* when every (week, slot) fire time is in the future; a pair is left out iff
\* its fire time, slot time less reminderMinutes, is not after the timestamp,
\* and only pairs of week 0 are left out.
C10_WeeklyEmitsEightLessThePast ==
    \A j \in DOMAIN jpasses :
        (jpasses[j].pc = "schedule" /\ Len(jpasses[j].settings.times) = 2)
            => EightLessThePast(jpasses[j])

\* A state where C10's case has happened: a two-slot weekly pass is handing
\* over seven events, the first slot of week 0 being due exactly now.
C10_Witness ==
    \E j \in DOMAIN jpasses :
        /\ jpasses[j].pc = "schedule"
        /\ Len(jpasses[j].settings.times) = 2
        /\ Len(jpasses[j].notifications) = 7
        /\ FireTime(jpasses[j].settings, jpasses[j].now, 0, 0) = jpasses[j].now

\* ================================================================ travel
\* TravelProvider: the travel settings, the derived travelState and the
\* auto-reset effect.

\* The most advances of the clock while the travel state is followed.
MaxTravelTicks == 2

\* Where the device can be: Mecca, and two places 88.7 km and 100 km from it
\* on one road.
Place == {"mecca", "edge", "far"}

Position == [mecca |-> 0, edge |-> 887, far |-> 1000]

\* calculateDistanceKm(from, to): symmetric, zero between a place and itself.
calculateDistanceKm(from, to) ==
    IF Position[from] >= Position[to]
    THEN Position[from] - Position[to]
    ELSE Position[to] - Position[from]

\* The first midnight (UTC) of the run, and the advances of the clock.
TravelStartClock == At(4, 0, 0)

TravelSteps == {10, 4 * MinutesPerDay}

\* The values of the "Max travel days" select that are picked.
MaxTravelDaysPicked == {0, 4, 10}

\* new Date().toISOString().split('T')[0]: the UTC day of now.
today(now) == DayOf(now)

\* A threshold test every distance passes.
AboveThresholdAnywhere(distance, threshold) == distance >= 0

\* A threshold test that leaves the boundary out.
AboveThresholdStrict(distance, threshold) == distance > threshold

\* aboveThreshold = distance >= travel.distanceThresholdKm
AboveThreshold(distance, threshold) == distance >= threshold

\* An override test that takes every override but force_on for it.
ForcedOnInverted(tr) == tr.override # "force_on"

\* An override test that never sees force_on.
ForcedOnNever(tr) == FALSE

\* travel.override === 'force_on'
ForcedOn(tr) == tr.override = "force_on"

\* An expiry that applies the limit of 0 days as well.
ExpiredAnyLimit(tr, now) ==
    /\ tr.travelStartDate # Null
    /\ now - (tr.travelStartDate * MinutesPerDay) > tr.maxTravelDays * MinutesPerDay

\* An expiry that starts on the last day of the allowance.
ExpiredInclusive(tr, now) ==
    /\ tr.maxTravelDays > 0
    /\ tr.travelStartDate # Null
    /\ now - (tr.travelStartDate * MinutesPerDay) >= tr.maxTravelDays * MinutesPerDay

\* travel.maxTravelDays > 0 && travel.travelStartDate && daysDiff > maxTravelDays,
\* with daysDiff = (now - new Date(travelStartDate)) / one day.
Expired(tr, now) ==
    /\ tr.maxTravelDays > 0
    /\ tr.travelStartDate # Null
    /\ now - (tr.travelStartDate * MinutesPerDay) > tr.maxTravelDays * MinutesPerDay

\* An off test that wants travel disabled and the home base missing.
TravelOffNeedsBoth(tr) == ~tr.enabled /\ tr.homeBase = "none"

\* !travel.enabled || !travel.homeBase
TravelOff(tr) == ~tr.enabled \/ tr.homeBase = "none"

\* The callback of the travelState useMemo, run at time now.
TravelStateOf(tr, loc, dis, now) ==
    IF TravelOff(tr) THEN defaultTravelState
    ELSE IF tr.override = "force_off" THEN defaultTravelState
    ELSE
        LET distance == calculateDistanceKm(tr.homeBase, loc)
            aboveThreshold == AboveThreshold(distance, tr.distanceThresholdKm)
            isAutoDetected == ~ForcedOn(tr) /\ aboveThreshold /\ tr.autoConfirmed
            travelPending ==
                ~ForcedOn(tr) /\ aboveThreshold /\ ~tr.autoConfirmed /\ ~dis
            isTraveling == (ForcedOn(tr) \/ isAutoDetected) /\ ~Expired(tr, now)
        IN  IF ~isTraveling /\ ~travelPending
            THEN [defaultTravelState EXCEPT !.distanceFromHomeKm = distance]
            ELSE IF travelPending
            THEN [defaultTravelState EXCEPT !.travelPending = TRUE,
                                            !.distanceFromHomeKm = distance]
            ELSE [isTraveling |-> TRUE,
                  travelPending |-> FALSE,
                  distanceFromHomeKm |-> distance,
                  isAutoDetected |-> isAutoDetected,
                  qasr |-> [dhuhr |-> TRUE, asr |-> TRUE, isha |-> TRUE],
                  jamaDhuhrAsr |-> tr.jamaDhuhrAsr,
                  jamaMaghribIsha |-> tr.jamaMaghribIsha]

\* A reset test that does not ask for a stored confirmation.
ResetDueUnconfirmed(tr, prevDistance, distance) ==
    /\ prevDistance # Null
    /\ prevDistance >= tr.distanceThresholdKm
    /\ distance < tr.distanceThresholdKm

\* A reset test that wants the previous distance strictly above the threshold.
ResetDueStrict(tr, prevDistance, distance) ==
    /\ tr.autoConfirmed
    /\ prevDistance # Null
    /\ prevDistance > tr.distanceThresholdKm
    /\ distance < tr.distanceThresholdKm

\* The condition of the auto-reset effect.
ResetDue(tr, prevDistance, distance) ==
    /\ tr.autoConfirmed
    /\ prevDistance # Null
    /\ prevDistance >= tr.distanceThresholdKm
    /\ distance < tr.distanceThresholdKm

\* A confirmation that leaves the start date as it is.
ConfirmUpdateKeepDate(tr, now) == [tr EXCEPT !.autoConfirmed = TRUE]

\* The update confirmTravel passes to updateTravel.
ConfirmUpdate(tr, now) ==
    [tr EXCEPT !.autoConfirmed = TRUE, !.travelStartDate = today(now)]

\* updateTravel(updates) from a handler: the settings change, so the next
\* render recomputes travelState and the auto-reset effect is due.
Mutator(newTravel, call) ==
    /\ ~effectPending
    /\ travel' = newTravel
    /\ travelState' = TravelStateOf(newTravel, location, dismissed, clock)
    /\ effectPending' = TRUE
    /\ lastCall' = call
    /\ UNCHANGED <<dismissed, prevDistanceRef, location, clock, ticks>>
    /\ UNCHANGED <<schedulerVars, idVars>>

\* A home base is picked in the onboarding or in the settings dialog.
setHomeBase ==
    /\ ~effectPending
    /\ \E home \in Place :
        Mutator([travel EXCEPT !.homeBase = home], "setHomeBase")

\* The button is shown for a home base that is set, with travel enabled.
clearHomeBase ==
    /\ travel.enabled
    /\ travel.homeBase # "none"
    /\ Mutator([travel EXCEPT !.homeBase = "none", !.travelStartDate = Null,
                              !.autoConfirmed = FALSE], "clearHomeBase")

\* The three override buttons are shown with travel enabled.
setTravelOverride ==
    /\ travel.enabled
    /\ \E override \in {"auto", "force_on", "force_off"} :
        Mutator([travel EXCEPT
                    !.override = override,
                    !.travelStartDate =
                        IF override = "force_on" /\ @ = Null
                        THEN today(clock) ELSE @], "setTravelOverride")

toggleJama ==
    /\ travel.enabled
    /\ \E pair \in {"dhuhrAsr", "maghribIsha"} :
        Mutator(IF pair = "dhuhrAsr"
                THEN [travel EXCEPT !.jamaDhuhrAsr = ~@]
                ELSE [travel EXCEPT !.jamaMaghribIsha = ~@], "toggleJama")

toggleTravelEnabled ==
    /\ ~effectPending
    /\ LET newEnabled == ~travel.enabled
       IN  Mutator([travel EXCEPT
                       !.enabled = newEnabled,
                       !.travelStartDate =
                           IF newEnabled /\ @ = Null THEN today(clock) ELSE @],
                   "toggleTravelEnabled")

\* The "Max travel days" select: updateTravel({maxTravelDays}).
setMaxTravelDays ==
    /\ travel.enabled
    /\ \E days \in MaxTravelDaysPicked \ {travel.maxTravelDays} :
        Mutator([travel EXCEPT !.maxTravelDays = days], "setMaxTravelDays")

\* The prompt's Confirm button: the prompt is shown while travelPending.
confirmTravel ==
    /\ ~effectPending
    /\ travelState.travelPending
    /\ travel' = ConfirmUpdate(travel, clock)
    /\ dismissed' = FALSE
    /\ travelState' =
            TravelStateOf(ConfirmUpdate(travel, clock), location, FALSE, clock)
    /\ effectPending' = TRUE
    /\ lastCall' = "confirmTravel"
    /\ UNCHANGED <<prevDistanceRef, location, clock, ticks>>
    /\ UNCHANGED <<schedulerVars, idVars>>

\* A dismissal that also erases the stored start date.
dismissTravelErasing ==
    /\ ~effectPending
    /\ travelState.travelPending
    /\ dismissed' = TRUE
    /\ travel' = [travel EXCEPT !.travelStartDate = Null]
    /\ travelState' = TravelStateOf(travel, location, TRUE, clock)
    /\ lastCall' = "dismissTravel"
    /\ UNCHANGED <<prevDistanceRef, effectPending, location, clock, ticks>>
    /\ UNCHANGED <<schedulerVars, idVars>>

\* The prompt's Dismiss button: dismissed is a dependency of the memo and not
\* of the effect.
dismissTravel ==
    /\ ~effectPending
    /\ travelState.travelPending
    /\ dismissed' = TRUE
    /\ travelState' = TravelStateOf(travel, location, TRUE, clock)
    /\ lastCall' = "dismissTravel"
    /\ UNCHANGED <<travel, prevDistanceRef, effectPending, location, clock, ticks>>
    /\ UNCHANGED <<schedulerVars, idVars>>

\* LocationContext delivers a new position.
LocationUpdate ==
    /\ ~effectPending
    /\ \E coordinates \in Place \ {location} :
        /\ location' = coordinates
        /\ travelState' = TravelStateOf(travel, coordinates, dismissed, clock)
    /\ effectPending' = TRUE
    /\ lastCall' = "setLocation"
    /\ UNCHANGED <<travel, dismissed, prevDistanceRef, clock, ticks>>
    /\ UNCHANGED <<schedulerVars, idVars>>

\* The auto-reset effect runs after a render in which settings or location
\* changed.  A reset changes the settings, so the effect is due once more.
RunEffect ==
    /\ effectPending
    /\ IF ~travel.enabled \/ travel.homeBase = "none"
       THEN /\ effectPending' = FALSE
            /\ UNCHANGED <<travel, travelState, dismissed, prevDistanceRef, lastCall>>
       ELSE LET distance == calculateDistanceKm(travel.homeBase, location)
                prevDistance == prevDistanceRef
                reset == [travel EXCEPT !.autoConfirmed = FALSE,
                                        !.travelStartDate = Null]
            IN  /\ prevDistanceRef' = distance
                /\ IF ResetDue(travel, prevDistance, distance)
                   THEN /\ travel' = reset
                        /\ dismissed' = FALSE
                        /\ travelState' =
                                TravelStateOf(reset, location, FALSE, clock)
                        /\ effectPending' = TRUE
                        /\ lastCall' = "reset"
                   ELSE /\ effectPending' = FALSE
                        /\ UNCHANGED <<travel, travelState, dismissed, lastCall>>
    /\ UNCHANGED <<location, clock, ticks>>
    /\ UNCHANGED <<schedulerVars, idVars>>

\* The process is killed and started again: the stored settings are loaded,
\* dismissed and prevDistanceRef start over, and the device is somewhere.
Restart ==
    /\ ~effectPending
    /\ \E coordinates \in Place :
        /\ location' = coordinates
        /\ travelState' = TravelStateOf(travel, coordinates, FALSE, clock)
    /\ dismissed' = FALSE
    /\ prevDistanceRef' = Null
    /\ effectPending' = TRUE
    /\ lastCall' = "restart"
    /\ UNCHANGED <<travel, clock, ticks>>
    /\ UNCHANGED <<schedulerVars, idVars>>

\* Time passes; nothing the memo depends on changes.
TravelTick ==
    /\ ~effectPending
    /\ ticks < MaxTravelTicks
    /\ \E step \in TravelSteps : clock' = clock + step
    /\ ticks' = ticks + 1
    /\ lastCall' = "tick"
    /\ UNCHANGED <<travel, travelState, dismissed, prevDistanceRef, effectPending,
                   location>>
    /\ UNCHANGED <<schedulerVars, idVars>>

TravelInit ==
    /\ clock = TravelStartClock
    /\ ticks = 0
    /\ location \in Place
    /\ SchedulerIdle
    /\ TravelIdle
    /\ IdsIdle

TravelNext ==
    \/ setHomeBase
    \/ clearHomeBase
    \/ setTravelOverride
    \/ toggleJama
    \/ toggleTravelEnabled
    \/ setMaxTravelDays
    \/ confirmTravel
    \/ dismissTravel
    \/ LocationUpdate
    \/ RunEffect
    \/ Restart
    \/ TravelTick

SpecTravel == TravelInit /\ [][TravelNext]_vars

\* ============================================================ id schemes
\* The two id schemes on their own: getNotificationId called for a prayer, a
\* day and a kind, and scheduleJumuahNotifications run alone for a number of
\* configured slots.

\* The most slots a user adds with "Add Another Jumu'ah Time".
MaxSlots == 11

\* Math.floor(id / 100) * 100, as in cancelNotification and the click listener.
DecodeBase(id) == (id \div 100) * 100

\* The click listener's lookup of the prayer of an id; "none" for undefined.
DecodePrayer(id) ==
    IF \E p \in PrayerName : PRAYER_BASE_IDS[p] = DecodeBase(id)
    THEN CHOOSE p \in PrayerName : PRAYER_BASE_IDS[p] = DecodeBase(id)
    ELSE "none"

\* cancelNotification(prayer): the pending events it cancels.
cancelNotification(pend, prayer) ==
    Cancel(pend, {id \in PendingIds(pend) : DecodeBase(id) = PRAYER_BASE_IDS[prayer]})

\* Jumu'ah settings with n slots, five minutes apart from 13:00.
SlotSettings(n) ==
    [enabled |-> TRUE,
     times |-> [k \in 1..n |-> <<13, 5 * (k - 1)>>],
     reminderMinutes |-> 30]

\* getNotificationId(prayer, dayOffset, isAtTime) is called. The two schemes
\* are exercised apart: ids are handed out while no weekly event is pending.
Allocate(prayer, dayOffset, isAtTime) ==
    /\ pending = {}
    /\ allocated' = << allocated[2],
                       [prayer |-> prayer, dayOffset |-> dayOffset,
                        isAtTime |-> isAtTime,
                        id |-> getNotificationId(prayer, dayOffset, isAtTime)] >>
    /\ UNCHANGED <<clock, ticks, location, schedulerVars, travelVars, weekly>>

\* scheduleJumuahNotifications(jumuahSettings) run alone, permission granted:
\* cancel the weekly range, build the events, schedule them.
ScheduleWeekly(n) ==
    /\ allocated = <<NoAllocation, NoAllocation>>
    /\ weekly' = JumuahNotifications(SlotSettings(n), clock)
    /\ pending' = Schedule(Cancel(pending, JumuahTargets(PendingIds(pending))),
                           JumuahNotifications(SlotSettings(n), clock))
    /\ UNCHANGED <<clock, ticks, location, failures, settings, isLoading,
                   passes, jpasses, travelVars, allocated>>

\* cancelJumuahNotifications() run alone.
CancelWeekly ==
    /\ weekly # << >>
    /\ pending' = Cancel(pending, JumuahTargets(PendingIds(pending)))
    /\ weekly' = << >>
    /\ UNCHANGED <<clock, ticks, location, failures, settings, isLoading,
                   passes, jpasses, travelVars, allocated>>

IdsInit ==
    /\ clock = StartClock
    /\ ticks = 0
    /\ location = defaultLocation
    /\ SchedulerIdle
    /\ TravelIdle
    /\ IdsIdle

IdsNext ==
    \/ \E prayer \in PrayerName, dayOffset \in WindowDays, isAtTime \in BOOLEAN :
          Allocate(prayer, dayOffset, isAtTime)
    \/ \E n \in 1..MaxSlots : ScheduleWeekly(n)
    \/ CancelWeekly

SpecIds == IdsInit /\ [][IdsNext]_vars

\* C11: for every configured number of slots the weekly events built have
\* pairwise different ids, all in 700..799, so that none overwrites another
\* when scheduled and the weekly cancel removes every one of them.
C11_WeeklyIdsDistinct ==
    LET ids == {weekly[k].id : k \in DOMAIN weekly}
    IN  /\ Cardinality(ids) = Len(weekly)
        /\ ids \subseteq WeeklyIds
        /\ Cardinality(pending) = Len(weekly)
        /\ JumuahTargets(PendingIds(pending)) = PendingIds(pending)

Allocations == {k \in 1..2 : allocated[k].prayer # "none"}

\* C12: an id handed out for (prayer, dayOffset, kind) is the prayer's band
\* plus dayOffset*10 plus kind, lies in the prayer's band and in 100..699,
\* decodes to the prayer's band, and differs from the id of any other triple.
C12_PrayerIdsInjective ==
    /\ \A k \in Allocations :
        LET a == allocated[k]
        IN  /\ a.id = PRAYER_BASE_IDS[a.prayer] + (a.dayOffset * 10)
                        + (IF a.isAtTime THEN 1 ELSE 0)
            /\ a.id \in BandOf(a.prayer)
            /\ a.id \in PrayerIds
            /\ DecodeBase(a.id) = PRAYER_BASE_IDS[a.prayer]
            /\ DecodePrayer(a.id) = a.prayer
    /\ (Allocations = {1, 2} /\ allocated[1] # allocated[2])
            => allocated[1].id # allocated[2].id

\* Two ids of one prayer: the last day's at-time id after the first day's
\* reminder id.
C12_Witness ==
    /\ allocated[1].prayer = "isha" /\ allocated[1].dayOffset = 0
    /\ ~allocated[1].isAtTime
    /\ allocated[2].prayer = "isha" /\ allocated[2].dayOffset = 6
    /\ allocated[2].isAtTime

\* ------------------------------------------------------ travel properties
HomeSet == travel.enabled /\ travel.homeBase # "none"

\* The distance from the home base to the current location.
DistanceNow == calculateDistanceKm(travel.homeBase, location)

NoQasr == [dhuhr |-> FALSE, asr |-> FALSE, isha |-> FALSE]

AllQasr == [dhuhr |-> TRUE, asr |-> TRUE, isha |-> TRUE]

\* C13: with travel enabled, a home base set and override auto, a distance
\* below the threshold gives isTraveling = false and travelPending = false,
\* whatever autoConfirmed and dismissed are.
C13_BelowThresholdAtHome ==
    (HomeSet /\ travel.override = "auto"
        /\ DistanceNow < travel.distanceThresholdKm)
    => (~travelState.isTraveling /\ ~travelState.travelPending)

\* Exactly at the home base with the confirmation still stored.
C13_Witness ==
    /\ HomeSet /\ travel.override = "auto"
    /\ location = travel.homeBase
    /\ travel.autoConfirmed
    /\ travelState.distanceFromHomeKm = 0

C15_ConfirmStartsTravel ==
    lastCall = "confirmTravel"
    => /\ travelState.isTraveling
       /\ travelState.isAutoDetected
       /\ ~travelState.travelPending
       /\ travelState.qasr = AllQasr
       /\ travel.autoConfirmed
       /\ ~dismissed
       /\ travel.travelStartDate # Null

\* Confirmed, and the effect that follows the confirmation has run.
C15_Witness ==
    /\ lastCall = "confirmTravel"
    /\ ~effectPending
    /\ travelState.isTraveling
    /\ travel.travelStartDate = today(clock)

\* The auto-reset effect is due with the confirmation stored, the previous
\* distance at or above the threshold and the current one below it.
ReturnedHome ==
    /\ effectPending
    /\ HomeSet
    /\ travel.autoConfirmed
    /\ prevDistanceRef # Null
    /\ prevDistanceRef >= travel.distanceThresholdKm
    /\ DistanceNow < travel.distanceThresholdKm

WasReset ==
    /\ ~travel'.autoConfirmed
    /\ travel'.travelStartDate = Null
    /\ ~dismissed'

\* C16: when the confirmation is stored, the previous evaluation had the
\* distance at or above the threshold and the current distance is below it,
\* the next step clears autoConfirmed, sets travelStartDate to null and
\* dismissed to false, and, unless the override is force_on, the status has
\* isTraveling = false.
C16_AutoReset ==
    [][ReturnedHome
        => /\ WasReset
           /\ travel.override # "force_on" => ~travelState'.isTraveling]_vars

\* The reset has happened below the threshold and the status is not traveling.
C16_Witness ==
    /\ lastCall = "reset"
    /\ ~effectPending
    /\ travel.override = "auto"
    /\ DistanceNow < travel.distanceThresholdKm
    /\ ~travel.autoConfirmed
    /\ ~travelState.isTraveling

\* C16 as stated, for every override: after the reset the status has
\* isTraveling = false.
C16_AutoResetAnyOverride ==
    [][ReturnedHome => (WasReset /\ ~travelState'.isTraveling)]_vars

\* C17: once the latest update has been processed, with travel enabled, a home
\* base set and the distance below the threshold, autoConfirmed is false; and
\* right after clearHomeBase() autoConfirmed is false.
C17_ConfirmationClearedAtHome ==
    /\ (~effectPending /\ HomeSet /\ DistanceNow < travel.distanceThresholdKm)
            => ~travel.autoConfirmed
    /\ lastCall = "clearHomeBase" => ~travel.autoConfirmed

\* The rules before expiry give isTraveling = true: forced on, or confirmed
\* at or above the threshold.
TravelingBeforeExpiry ==
    /\ HomeSet
    /\ \/ travel.override = "force_on"
       \/ /\ travel.override = "auto"
          /\ DistanceNow >= travel.distanceThresholdKm
          /\ travel.autoConfirmed

\* Minutes from the midnight that starts travelStartDate to now.
ElapsedMinutes == clock - (travel.travelStartDate * MinutesPerDay)

\* travelState was computed at the current time: every step but an advance of
\* the clock recomputes it or leaves a value computed at this time.
EvaluatedNow == lastCall # "tick"

C19_ForcedOn ==
    (/\ HomeSet
     /\ travel.override = "force_on"
     /\ ~(/\ travel.maxTravelDays > 0
          /\ travel.travelStartDate # Null
          /\ ElapsedMinutes > travel.maxTravelDays * MinutesPerDay))
    => travelState =
        [isTraveling |-> TRUE,
         travelPending |-> FALSE,
         distanceFromHomeKm |-> DistanceNow,
         isAutoDetected |-> FALSE,
         qasr |-> AllQasr,
         jamaDhuhrAsr |-> travel.jamaDhuhrAsr,
         jamaMaghribIsha |-> travel.jamaMaghribIsha]

\* Forced on at the home base itself, with one combine flag set and the
\* allowance of four days used to the last minute.
C19_Witness ==
    /\ HomeSet
    /\ travel.override = "force_on"
    /\ location = travel.homeBase
    /\ travel.jamaMaghribIsha /\ ~travel.jamaDhuhrAsr
    /\ travel.maxTravelDays = 4
    /\ travel.travelStartDate # Null
    /\ ElapsedMinutes = 4 * MinutesPerDay
    /\ EvaluatedNow
    /\ travelState.isTraveling

\* C20: with travel enabled, a home base set and override force_off, every
\* travel effect is off and distanceFromHomeKm is the distance from the home
\* base to the current location.
C20_ForcedOffReportsDistance ==
    (HomeSet /\ travel.override = "force_off")
    => /\ ~travelState.isTraveling
       /\ ~travelState.travelPending
       /\ travelState.qasr = NoQasr
       /\ ~travelState.jamaDhuhrAsr
       /\ ~travelState.jamaMaghribIsha
       /\ travelState.distanceFromHomeKm = DistanceNow

\* C21: with travel disabled or no home base set the status is Off, equal to
\* defaultTravelState with distanceFromHomeKm null, for every override,
\* autoConfirmed, dismissed and location.
C21_OffWithoutHomeOrDisabled ==
    (~travel.enabled \/ travel.homeBase = "none")
    => /\ ~travelState.isTraveling
       /\ ~travelState.travelPending
       /\ ~travelState.isAutoDetected
       /\ travelState.qasr = NoQasr
       /\ ~travelState.jamaDhuhrAsr
       /\ ~travelState.jamaMaghribIsha
       /\ travelState.distanceFromHomeKm = Null

\* Disabled while forced on, away from a home base that is set, with a
\* combine flag set.
C21_Witness ==
    /\ ~travel.enabled
    /\ travel.homeBase # "none"
    /\ travel.override = "force_on"
    /\ travel.jamaDhuhrAsr
    /\ calculateDistanceKm(travel.homeBase, location) >= travel.distanceThresholdKm
    /\ ~effectPending
    /\ travelState = defaultTravelState

\* The step is a call of confirmTravel: no effect is due before it and it is
\* recorded as the last call.
ConfirmStep == ~effectPending /\ lastCall' = "confirmTravel"

\* C22: when travelStartDate holds a date before confirmTravel() is called,
\* it holds the same date after the call.
C22_ConfirmKeepsStartDate ==
    [][(ConfirmStep /\ travel.travelStartDate # Null)
        => travel'.travelStartDate = travel.travelStartDate]_vars

\* The step is a location update that brings the device from below the
\* threshold, where the previous location update had brought it, to at or
\* above the threshold, with the prompt dismissed earlier in the session and
\* no confirmation stored.
LeavesHomeAfterDismissal ==
    /\ ~effectPending
    /\ lastCall = "setLocation"
    /\ lastCall' = "setLocation"
    /\ HomeSet
    /\ travel.override = "auto"
    /\ ~travel.autoConfirmed
    /\ dismissed
    /\ DistanceNow < travel.distanceThresholdKm
    /\ calculateDistanceKm(travel.homeBase, location') >= travel.distanceThresholdKm

\* C23: after dismissTravel() on a pending status, a location update to below
\* the threshold followed by a location update to at or above the threshold
\* gives travelPending = true again.
C23_DismissalEndsAtHome ==
    [][LeavesHomeAfterDismissal => travelState'.travelPending]_vars

\* C24: dismissTravel() on a pending status sets dismissed and changes no
\* field of the travel settings; with the location unchanged the status that
\* follows has travelPending = false and isTraveling = false.
C24_DismissOnlyDismisses ==
    [][(travelState.travelPending /\ lastCall' = "dismissTravel")
        => /\ travel' = travel
           /\ dismissed'
           /\ location' = location
           /\ ~travelState'.travelPending
           /\ ~travelState'.isTraveling]_vars

\* Dismissed at or above the threshold: the status is monitoring, with the
\* distance still reported.
C24_Witness ==
    /\ lastCall = "dismissTravel"
    /\ dismissed
    /\ HomeSet
    /\ travel.travelStartDate # Null
    /\ DistanceNow >= travel.distanceThresholdKm
    /\ ~travelState.travelPending
    /\ ~travelState.isTraveling
    /\ travelState.distanceFromHomeKm = DistanceNow

\* The expired condition: the rules before expiry give isTraveling = true,
\* the allowance is over and the status is not traveling.
ExpiredStatus ==
    /\ TravelingBeforeExpiry
    /\ travel.maxTravelDays > 0
    /\ travel.travelStartDate # Null
    /\ ElapsedMinutes > travel.maxTravelDays * MinutesPerDay
    /\ ~travelState.isTraveling

\* The steps that evaluate the status and are no call of a settings mutator
\* and no auto-reset.
EvaluationOnly == lastCall' \in {"setLocation", "restart", "dismissTravel", "tick"}

\* After the step the rules before expiry give isTraveling = true and the
\* allowance is not over.
NotExpiredAfter ==
    /\ TravelingBeforeExpiry'
    /\ \/ travel'.maxTravelDays = 0
       \/ travel'.travelStartDate = Null
       \/ ElapsedMinutes' <= travel'.maxTravelDays * MinutesPerDay

\* C25: an evaluation in the expired condition changes none of override,
\* autoConfirmed and travelStartDate; and when, from the expired condition
\* and with the location unchanged, maxTravelDays is raised to at least the
\* elapsed days or set to 0, or travelStartDate is cleared, the status that
\* follows has isTraveling = true.
C25_ExpiryKeepsSettings ==
    [][/\ ((ExpiredStatus \/ ExpiredStatus') /\ EvaluationOnly)
            => /\ travel'.override = travel.override
               /\ travel'.autoConfirmed = travel.autoConfirmed
               /\ travel'.travelStartDate = travel.travelStartDate
       /\ (ExpiredStatus /\ location' = location /\ lastCall' # "tick"
                /\ NotExpiredAfter)
            => travelState'.isTraveling]_vars

\* Traveling again, confirmed and away, after the allowance was raised from 4
\* to 10 days with 4 days and 10 minutes elapsed.
C25_Witness ==
    /\ lastCall = "setMaxTravelDays"
    /\ travel.maxTravelDays = 10
    /\ travel.override = "auto"
    /\ travel.autoConfirmed
    /\ travel.travelStartDate # Null
    /\ ElapsedMinutes = (4 * MinutesPerDay) + 10
    /\ travelState.isTraveling
    /\ travelState.isAutoDetected

\* The step is a call of setTravelOverride('force_on') that turns isTraveling
\* from false to true.
ForcedOnStep ==
    /\ ~effectPending
    /\ lastCall' = "setTravelOverride"
    /\ travel'.override = "force_on"
    /\ ~travelState.isTraveling
    /\ travelState'.isTraveling

\* C26: after setTravelOverride('force_on') has turned isTraveling from false
\* to true, travelStartDate is the date of that call, whatever calls came
\* before.
C26_ForcedTravelStartsToday ==
    [][ForcedOnStep => travel'.travelStartDate = today(clock)]_vars

\* C29: in every reachable state isTraveling = true implies that
\* travelStartDate is set.
C29_TravelingHasStartDate ==
    travelState.isTraveling => travel.travelStartDate # Null

\* C27: a location update changes no field of the travel settings and not
\* the dismissed flag, and neither does the effect that follows it, unless
\* the confirmation is stored, the previous distance was at or above the
\* threshold and the current one is below it; the effect then changes
\* autoConfirmed, travelStartDate and dismissed and nothing else.
C27_OnlyAutoResetMutates ==
    [][/\ (~effectPending /\ lastCall' = "setLocation")
            => (travel' = travel /\ dismissed' = dismissed)
       /\ (effectPending /\ lastCall = "setLocation" /\ ~ReturnedHome)
            => (travel' = travel /\ dismissed' = dismissed)
       /\ (effectPending /\ lastCall = "setLocation" /\ ReturnedHome)
            => /\ travel' = [travel EXCEPT !.autoConfirmed = FALSE,
                                           !.travelStartDate = Null]
               /\ dismissed' = FALSE]_vars

\* The effect after a location update back below the threshold has run with
\* no confirmation stored: the dismissal and the start date are still there.
C27_Witness ==
    /\ lastCall = "setLocation"
    /\ ~effectPending
    /\ HomeSet
    /\ DistanceNow < travel.distanceThresholdKm
    /\ prevDistanceRef = DistanceNow
    /\ ~travel.autoConfirmed
    /\ dismissed
    /\ travel.travelStartDate # Null

\* C28: in every reachable state of the status, isTraveling and travelPending
\* are not both true; the three shortening flags equal isTraveling; a combine
\* flag is true only if isTraveling is; isAutoDetected implies isTraveling and
\* override auto; travelPending implies override auto.
C28_StatusConsistent ==
    /\ ~(travelState.isTraveling /\ travelState.travelPending)
    /\ travelState.qasr.dhuhr = travelState.isTraveling
    /\ travelState.qasr.asr = travelState.isTraveling
    /\ travelState.qasr.isha = travelState.isTraveling
    /\ travelState.jamaDhuhrAsr => travelState.isTraveling
    /\ travelState.jamaMaghribIsha => travelState.isTraveling
    /\ travelState.isAutoDetected
            => (travelState.isTraveling /\ travel.override = "auto")
    /\ travelState.travelPending => travel.override = "auto"

\* An auto-detected traveling status with one combine flag on and shortening
\* on, the clock having advanced since it was computed.
C28_Witness ==
    /\ travelState.isTraveling
    /\ travelState.isAutoDetected
    /\ travelState.qasr = AllQasr
    /\ travelState.jamaMaghribIsha
    /\ ~travelState.jamaDhuhrAsr
    /\ lastCall = "tick"

\* ------------------------------------------------ weekly target days
\* The day of the occurrence an emitted weekly event reminds of: its fire time
\* plus the reminder.
TargetDay(p, n) == DayOf(n.at + p.settings.reminderMinutes)

\* What C30 asks of the events one weekly pass emits.
TargetsAfterToday(p) ==
    \A n \in Emitted(p) :
        LET week == (n.id - JUMUAH_BASE_ID) \div 10
            ahead == TargetDay(p, n) - DayOf(p.now) - (7 * week)
        IN  /\ week \in WindowWeeks
            /\ TargetDay(p, n) > DayOf(p.now)
            /\ getDay(TargetDay(p, n) * MinutesPerDay) = 5
            /\ ahead \in 1..7
            /\ getDay(p.now) = 5 => ahead = 7

\* C30: every occurrence a weekly pass targets lies on a Friday strictly after
\* the day of the pass: week k targets the Friday d + 7k days ahead with d in
\* 1..7, and d = 7 when the pass runs on a Friday, so a pass run on a Friday
\* emits no event for that day.
C30_WeeklyTargetsAfterToday ==
    \A j \in DOMAIN jpasses :
        jpasses[j].pc = "schedule" => TargetsAfterToday(jpasses[j])

\* A weekly pass run on a Friday before its slots' reminder times is handing
\* over its events, the first of them for the Friday a week later.
C30_Witness ==
    \E j \in DOMAIN jpasses :
        LET p == jpasses[j]
        IN  /\ p.pc = "schedule"
            /\ getDay(p.now) = 5
            /\ Len(p.notifications) = 4 * Len(p.settings.times)
            /\ \A k \in DOMAIN p.settings.times :
                At(DayOf(p.now), p.settings.times[k][1], p.settings.times[k][2])
                    - p.settings.reminderMinutes > p.now
            /\ TargetDay(p, p.notifications[1]) = DayOf(p.now) + 7

====
